---- MODULE Spec2Model ----
(***************************************************************************)
(* Model of the video analysis pipeline of backend/main.py:                *)
(* analyze_video_file with its two adapters, predict_flood_probability     *)
(* and optical_flow_velocity.                                              *)
(*                                                                         *)
(* Numbers.  The classifier returns a float32 converted to float, so every *)
(* score is a dyadic rational; scores are modelled as integers counting    *)
(* sixteenths (8 is 0.5, 20 is 1.25).  Velocities are integers counting    *)
(* pixels.  A mean is the pair <<sum, count>> and is compared with a       *)
(* threshold by cross-multiplication, so no rounding is introduced.        *)
(* A frame is modelled by its position in the stream (1, 2, ...).          *)
(***************************************************************************)
EXTENDS Integers, Sequences, FiniteSets

VARIABLES
  pc,            \* position in analyze_video_file
  modelLoaded,   \* classifier_model is not None
  cap,           \* the cv2.VideoCapture: "none", "unopened", "open", "released"
  framesRead,    \* number of frames cap.read() has yielded so far
  flood_scores,  \* list of per-frame probabilities (sixteenths)
  velocities,    \* list of motion magnitudes
  prev_gray,     \* previous grayscale frame, or NoGray
  pending,       \* exception propagating out of the try block, or "none"
  classified,    \* log of the values predict_flood_probability returned
  flowCalls,     \* log of the calls of optical_flow_velocity
  raised,        \* log of the exceptions analyze_video_file has raised
  returned       \* log of the dicts analyze_video_file has returned

vars == <<pc, modelLoaded, cap, framesRead, flood_scores, velocities,
          prev_gray, pending, classified, flowCalls, raised, returned>>

----------------------------------------------------------------------------
(* Bounds and input domains *)

\* longest video, in frames
MaxFrames == 3

\* classifier outputs, in sixteenths: 0.0, 0.25, 0.5, 0.5625, 1.25
ProbValues == {0, 4, 8, 9, 20}

\* motion magnitudes the estimator may return
VelValues == {0, 2, 5}

\* what one call of predict_flood_probability can do
ClassifyOutcomes ==
  [status : {"value"}, p : ProbValues] \cup {[status |-> "error", p |-> 0]}

\* what one call of optical_flow_velocity can do: a float, None, or an
\* exception of the cv2 calls
FlowOutcomes ==
  [status : {"value"}, v : VelValues]
    \cup {[status |-> "none", v |-> 0], [status |-> "error", v |-> 0]}

----------------------------------------------------------------------------
(* Pure helpers *)

RECURSIVE SumSeq(_)
SumSeq(s) == IF s = <<>> THEN 0 ELSE s[1] + SumSeq(Tail(s))

\* a < b for means <<sum, count>> with positive count
RatLess(a, b) == a[1] * b[2] < b[1] * a[2]

\* 0.5 of a probability, in sixteenths
ProbHalf == <<8, 1>>

\* 0.2 of a probability, in sixteenths (16/5)
ProbFloor == <<16, 5>>

\* 2 pixels
VelocityLimit == <<2, 1>>

NoGray == <<>>

\* cv2.cvtColor(frame, COLOR_BGR2GRAY): the grayscale of frame f
Gray(f) == <<f>>

----------------------------------------------------------------------------
(* The decisions of analyze_video_file, one operator per line of code *)

\* flood_scores.append(flood_prob)
AppendScoreFloodOnly(scores, p) ==
  IF RatLess(ProbHalf, <<p, 1>>) THEN Append(scores, p) ELSE scores

AppendScore(scores, p) == Append(scores, p)

\* if flood_prob > 0.5 and prev_gray is not None
MotionTriggerAtLeast(p, prev) == ~RatLess(<<p, 1>>, ProbHalf) /\ prev # NoGray

MotionTriggerAnyFrame(p, prev) == prev # NoGray

MotionTrigger(p, prev) == RatLess(ProbHalf, <<p, 1>>) /\ prev # NoGray

\* optical_flow_velocity(prev_gray, gray): the arguments passed
FlowArgs(prev, gray) == [prev |-> prev, curr |-> gray]

\* if velocity is not None: velocities.append(velocity)
AppendVelocity(vels, r) ==
  IF r.status = "value" THEN Append(vels, r.v) ELSE vels

\* prev_gray = gray
NewPrevGrayOnTrigger(prev, gray, fired) == IF fired THEN gray ELSE prev

NewPrevGray(prev, gray, fired) == gray

\* finally: cap.release()
CapAfterFinallyNormalOnly(c, exc) == IF exc = "none" THEN "released" ELSE c

CapAfterFinally(c, exc) == "released"

\* if not flood_scores
NoFramesDecodedNever(scores) == FALSE

NoFramesDecoded(scores) == scores = <<>>

\* avg_flood_prob = float(np.mean(flood_scores))
AvgFloodProb(scores) == <<SumSeq(scores), Len(scores)>>

\* avg_velocity = float(np.mean(velocities)) if velocities else 0.0
AvgVelocityNoDefault(vels) ==
  IF vels = <<>> THEN <<2, 1>> ELSE <<SumSeq(vels), Len(vels)>>

AvgVelocity(vels) ==
  IF vels = <<>> THEN <<0, 1>> ELSE <<SumSeq(vels), Len(vels)>>

\* if avg_flood_prob < 0.2
NonWaterSceneNeedsNoMotion(avgProb, vels) ==
  RatLess(avgProb, ProbFloor) /\ vels = <<>>

NonWaterScene(avgProb, vels) == RatLess(avgProb, ProbFloor)

\* if avg_flood_prob < 0.5: LOW / elif avg_velocity < 2: MODERATE / else HIGH
RiskLevelVelocityFirst(avgProb, avgVel) ==
  IF RatLess(avgVel, VelocityLimit)
    THEN (IF RatLess(avgProb, ProbHalf) THEN "LOW" ELSE "MODERATE")
    ELSE "HIGH"

RiskLevel(avgProb, avgVel) ==
  IF RatLess(avgProb, ProbHalf) THEN "LOW"
  ELSE IF RatLess(avgVel, VelocityLimit) THEN "MODERATE"
  ELSE "HIGH"

----------------------------------------------------------------------------
(* State machine *)

Init ==
  /\ pc = "open"
  /\ modelLoaded \in BOOLEAN
  /\ cap = "none"
  /\ framesRead = 0
  /\ flood_scores = <<>>
  /\ velocities = <<>>
  /\ prev_gray = NoGray
  /\ pending = "none"
  /\ classified = <<>>
  /\ flowCalls = <<>>
  /\ raised = <<>>
  /\ returned = <<>>

\* cap = cv2.VideoCapture(path); not cap.isOpened(): raise HTTPException
OpenFail ==
  /\ pc = "open"
  /\ cap' = "unopened"
  /\ raised' = Append(raised, "SourceUnavailable")
  /\ pc' = "done"
  /\ UNCHANGED <<modelLoaded, framesRead, flood_scores, velocities,
                 prev_gray, pending, classified, flowCalls, returned>>

\* cap = cv2.VideoCapture(path); cap.isOpened(): the lists are created
OpenOk ==
  /\ pc = "open"
  /\ cap' = "open"
  /\ flood_scores' = <<>>
  /\ velocities' = <<>>
  /\ prev_gray' = NoGray
  /\ pc' = "read"
  /\ UNCHANGED <<modelLoaded, framesRead, pending, classified, flowCalls,
                 raised, returned>>

\* ok, frame = cap.read() with ok true
ReadFrame ==
  /\ pc = "read"
  /\ framesRead < MaxFrames
  /\ framesRead' = framesRead + 1
  /\ pc' = "body"
  /\ UNCHANGED <<modelLoaded, cap, flood_scores, velocities, prev_gray,
                 pending, classified, flowCalls, raised, returned>>

\* ok, frame = cap.read() with ok false: break
ReadEnd ==
  /\ pc = "read"
  /\ pc' = "finally"
  /\ UNCHANGED <<modelLoaded, cap, framesRead, flood_scores, velocities,
                 prev_gray, pending, classified, flowCalls, raised,
                 returned>>

\* variant of ClassifyFailure: the failure is swallowed and 0.0 is used
ClassifyFailureSubstitutesZero ==
  /\ pc = "body"
  /\ \E c \in ClassifyOutcomes : ~modelLoaded \/ c.status = "error"
  /\ flood_scores' = Append(flood_scores, 0)
  /\ prev_gray' = Gray(framesRead)
  /\ pc' = "read"
  /\ UNCHANGED <<modelLoaded, cap, framesRead, velocities, pending,
                 classified, flowCalls, raised, returned>>

\* predict_flood_probability raises: the model is not loaded, or the
\* cv2 / predict / float() calls fail
ClassifyFailure ==
  /\ pc = "body"
  /\ \E c \in ClassifyOutcomes :
       /\ ~modelLoaded \/ c.status = "error"
       /\ pending' = IF ~modelLoaded THEN "RuntimeError" ELSE "ClassifierError"
  /\ pc' = "finally"
  /\ UNCHANGED <<modelLoaded, cap, framesRead, flood_scores, velocities,
                 prev_gray, classified, flowCalls, raised, returned>>

\* the loop body for one frame whose classification returns a value
ProcessFrame ==
  /\ pc = "body"
  /\ modelLoaded
  /\ \E c \in ClassifyOutcomes, r \in FlowOutcomes :
       LET flood_prob == c.p
           gray == Gray(framesRead)
           fired == MotionTrigger(flood_prob, prev_gray)
           call == [frame |-> framesRead,
                    args |-> FlowArgs(prev_gray, gray),
                    result |-> r]
       IN /\ c.status = "value"
          /\ classified' = Append(classified,
                                  [frame |-> framesRead, p |-> flood_prob])
          /\ flood_scores' = AppendScore(flood_scores, flood_prob)
          /\ IF fired
               THEN /\ flowCalls' = Append(flowCalls, call)
                    /\ IF r.status = "error"
                         THEN /\ pending' = "FlowError"
                              /\ pc' = "finally"
                              /\ UNCHANGED <<velocities, prev_gray>>
                         ELSE /\ velocities' = AppendVelocity(velocities, r)
                              /\ prev_gray' = NewPrevGray(prev_gray, gray, fired)
                              /\ pc' = "read"
                              /\ UNCHANGED pending
               ELSE /\ r = [status |-> "none", v |-> 0]
                    /\ prev_gray' = NewPrevGray(prev_gray, gray, fired)
                    /\ pc' = "read"
                    /\ UNCHANGED <<velocities, pending, flowCalls>>
  /\ UNCHANGED <<modelLoaded, cap, framesRead, raised, returned>>

\* finally: cap.release(); a pending exception then leaves the function
Release ==
  /\ pc = "finally"
  /\ cap' = CapAfterFinally(cap, pending)
  /\ IF pending # "none"
       THEN /\ raised' = Append(raised, "AdapterFailure")
            /\ pc' = "done"
       ELSE /\ pc' = "aggregate"
            /\ UNCHANGED raised
  /\ UNCHANGED <<modelLoaded, framesRead, flood_scores, velocities,
                 prev_gray, pending, classified, flowCalls, returned>>

\* the code after the try statement: empty check, means, guard, risk level
Aggregate ==
  /\ pc = "aggregate"
  /\ IF NoFramesDecoded(flood_scores)
       THEN /\ raised' = Append(raised, "EmptyStream")
            /\ UNCHANGED returned
       ELSE LET avg_flood_prob == AvgFloodProb(flood_scores)
                avg_velocity == AvgVelocity(velocities)
            IN IF NonWaterScene(avg_flood_prob, velocities)
                 THEN /\ raised' = Append(raised, "SceneRejected")
                      /\ UNCHANGED returned
                 ELSE /\ returned' = Append(returned,
                           [flood_probability |-> avg_flood_prob,
                            average_velocity |-> avg_velocity,
                            risk_level |-> RiskLevel(avg_flood_prob,
                                                     avg_velocity)])
                      /\ UNCHANGED raised
  /\ pc' = "done"
  /\ UNCHANGED <<modelLoaded, cap, framesRead, flood_scores, velocities,
                 prev_gray, pending, classified, flowCalls>>

Next ==
  \/ OpenFail
  \/ OpenOk
  \/ ReadFrame
  \/ ReadEnd
  \/ ClassifyFailure
  \/ ProcessFrame
  \/ Release
  \/ Aggregate

Spec == Init /\ [][Next]_vars

\* a call of analyze_video_file runs to its end: each step is a statement
\* of one sequential function
FairSpec == Spec /\ WF_vars(Next)

----------------------------------------------------------------------------
(* Vocabulary of the properties *)

\* the run reached the code after the try statement (no exception pending)
Aggregated == pc = "done" /\ cap = "released" /\ pending = "none"

\* frames 2..n of the run so far whose score exceeds 0.5 (8 sixteenths)
TriggerFrames == {i \in 2..Len(flood_scores) : flood_scores[i] > 8}

\* the calls of optical_flow_velocity made while processing frame i
CallsAt(i) == {k \in 1..Len(flowCalls) : flowCalls[k].frame = i}

IsPrefix(s, t) ==
  Len(s) <= Len(t) /\ \A i \in 1..Len(s) : s[i] = t[i]

----------------------------------------------------------------------------
(* C1: every returned result's risk_level follows the ordered rule on its  *)
(* own (flood_probability, average_velocity): below 0.5 LOW; at least 0.5  *)
(* and velocity below 2 MODERATE; at least 0.5 and velocity at least 2     *)
(* HIGH.  The result's two numbers are the means of the two series.        *)
C1_RiskRule ==
  \A k \in 1..Len(returned) :
    LET r == returned[k]
        fp == r.flood_probability
        av == r.average_velocity
        lowProb == fp[1] < 8 * fp[2]
        slow == av[1] < 2 * av[2]
    IN /\ fp[1] * Len(flood_scores) = SumSeq(flood_scores) * fp[2]
       /\ lowProb => r.risk_level = "LOW"
       /\ (~lowProb /\ slow) => r.risk_level = "MODERATE"
       /\ (~lowProb /\ ~slow) => r.risk_level = "HIGH"

\* a LOW result although the collected velocities average 2 or more
C1_Witness ==
  /\ Len(returned) = 1
  /\ returned[1].risk_level = "LOW"
  /\ velocities # <<>>
  /\ SumSeq(velocities) >= 2 * Len(velocities)

(* C2: a run that decoded frames and reached aggregation with a mean score *)
(* below 0.2 raises SceneRejected and returns nothing, whatever velocities *)
(* were collected; every returned result has flood_probability >= 0.2.     *)
C2_SceneGuard ==
  /\ (Aggregated /\ flood_scores # <<>>
        /\ 5 * SumSeq(flood_scores) < 16 * Len(flood_scores))
       => (raised = <<"SceneRejected">> /\ returned = <<>>)
  /\ \A k \in 1..Len(returned) :
       /\ 5 * returned[k].flood_probability[1]
            >= 16 * returned[k].flood_probability[2]
       /\ 5 * SumSeq(flood_scores) >= 16 * Len(flood_scores)

\* a rejected run that had collected velocity samples
C2_Witness ==
  /\ pc = "done"
  /\ raised = <<"SceneRejected">>
  /\ velocities # <<>>
  /\ SumSeq(velocities) >= 2 * Len(velocities)

(* C3: optical_flow_velocity is called while processing frame i exactly    *)
(* when i is not the first frame and frame i's score is strictly above     *)
(* 0.5, and then once; never on frame 1, never for a score of 0.5 or less. *)
C3_MotionTrigger ==
  \A i \in 1..MaxFrames + 1 :
    /\ Cardinality(CallsAt(i)) <= 1
    /\ (CallsAt(i) # {}) <=>
         (i >= 2 /\ i <= Len(flood_scores) /\ flood_scores[i] > 8)

\* a run with a later frame scored exactly 0.5 and a later frame that
\* triggered the estimator, after a first frame scored above 0.5
C3_Witness ==
  /\ Len(flood_scores) = 3
  /\ flood_scores[1] > 8
  /\ \E i \in 2..3 : flood_scores[i] = 8
  /\ flowCalls # <<>>

(* C4 as stated: every run that has ended has released its source, on the  *)
(* SourceUnavailable exit too.                                             *)
C4_ReleasedOnEveryExit == pc = "done" => cap = "released"

(* C4 amended: a run whose source opened has called release by the time it *)
(* ends, on the result exit and on the EmptyStream, SceneRejected and      *)
(* AdapterFailure exits; on the SourceUnavailable exit nothing was opened  *)
(* and release is not called.  No run ends with its source open.           *)
C4_ReleasedOnceOpened ==
  pc = "done" =>
    /\ cap # "open"
    /\ (cap = "released") <=> (raised # <<"SourceUnavailable">>)
    /\ (cap = "unopened") <=> (raised = <<"SourceUnavailable">>)

\* a run ended by a motion-estimator failure in the middle of the loop
C4_Witness ==
  /\ pc = "done"
  /\ pending = "FlowError"
  /\ raised = <<"AdapterFailure">>
  /\ cap = "released"

C6_OneScorePerFrame ==
  /\ [](/\ (pc = "read" \/ (pc \in {"finally", "aggregate", "done"}
                              /\ pending = "none" /\ cap # "unopened"))
             => Len(flood_scores) = framesRead
        /\ Len(flood_scores) = Len(classified)
        /\ \A i \in 1..Len(flood_scores) :
             classified[i].frame = i /\ flood_scores[i] = classified[i].p)
  /\ [][IsPrefix(flood_scores, flood_scores')
          /\ Len(flood_scores') <= Len(flood_scores) + 1]_vars

\* end of stream after three frames, one of them scored 0.5 or less
C6_Witness ==
  /\ pc = "aggregate"
  /\ framesRead = 3
  /\ Len(flood_scores) = 3
  /\ \E i \in 1..3 : flood_scores[i] <= 8

(* C7: the velocity series is never longer than the number of frames       *)
(* processed so far, other than the first, whose score exceeded 0.5, hence *)
(* at most frames processed - 1; a velocity is appended only in a step in  *)
(* which the trigger held for the frame and the estimator returned a value.*)
C7_VelocityBound ==
  /\ [](/\ Len(velocities) <= Cardinality(TriggerFrames)
        /\ (flood_scores # <<>> => Len(velocities) <= Len(flood_scores) - 1)
        /\ (flood_scores = <<>> => velocities = <<>>))
  /\ [][velocities' # velocities =>
          /\ Len(flowCalls') = Len(flowCalls) + 1
          /\ LET c == flowCalls'[Len(flowCalls')]
             IN /\ c.result.status = "value"
                /\ velocities' = Append(velocities, c.result.v)
                /\ c.frame >= 2
                /\ c.frame = Len(flood_scores')
                /\ flood_scores'[c.frame] > 8]_vars

\* two frames triggered the estimator, one got a value and one got None
C7_Witness ==
  /\ Len(velocities) = 1
  /\ Cardinality(TriggerFrames) = 2
  /\ Len(flowCalls) = 2

(* C8: a run whose adapters do not fail ends, with exactly one outcome:    *)
(* one result, or one of SourceUnavailable (the source did not open),      *)
(* EmptyStream (opened, zero frames) and SceneRejected; never a result and *)
(* an error, never two errors, and nothing happens after the outcome.      *)
C8_OneOutcome ==
  /\ <>(pc = "done")
  /\ [](Len(raised) + Len(returned) <= 1)
  /\ [](pc # "done" => Len(raised) + Len(returned) = 0)
  /\ [](pc = "done" =>
          /\ Len(raised) + Len(returned) = 1
          /\ (pending = "none") <=> (raised # <<"AdapterFailure">>)
          /\ (raised = <<"SourceUnavailable">>) <=> (cap = "unopened")
          /\ (raised = <<"EmptyStream">>) <=>
               (cap = "released" /\ pending = "none" /\ framesRead = 0)
          /\ pending = "none" =>
               \/ returned # <<>>
               \/ raised \in {<<"SourceUnavailable">>, <<"EmptyStream">>,
                              <<"SceneRejected">>})
  /\ [][pc = "done" => vars' = vars]_vars

\* a source that opened and yielded no frame
C8_Witness ==
  /\ pc = "done"
  /\ framesRead = 0
  /\ raised = <<"EmptyStream">>
  /\ returned = <<>>

(* C9: a returned result of a run whose velocity series ended empty has    *)
(* average_velocity 0.0; otherwise average_velocity is the mean of the     *)
(* collected samples.                                                      *)
C9_AverageVelocity ==
  \A k \in 1..Len(returned) :
    LET av == returned[k].average_velocity
    IN /\ av[2] > 0
       /\ velocities = <<>> => av[1] = 0
       /\ velocities # <<>> =>
            av[1] * Len(velocities) = SumSeq(velocities) * av[2]

\* a result of a run where the estimator ran and always returned None
C9_Witness ==
  /\ Len(returned) = 1
  /\ velocities = <<>>
  /\ Len(flowCalls) = 2
  /\ returned[1].risk_level = "MODERATE"

(* C10: after every completed iteration the previous-grayscale slot holds  *)
(* the grayscale of the frame just processed, whether or not the estimator *)
(* ran; every call of the estimator for frame i gets (grayscale of frame   *)
(* i-1, grayscale of frame i); the slot holds at most one grayscale.       *)
C10_PrevGray ==
  /\ prev_gray \in {NoGray} \cup {Gray(f) : f \in 1..framesRead}
  /\ (pc = "read" \/ (pc \in {"finally", "aggregate", "done"}
                        /\ pending = "none" /\ cap # "unopened"))
       => prev_gray = (IF framesRead = 0 THEN NoGray ELSE Gray(framesRead))
  /\ \A k \in 1..Len(flowCalls) :
       /\ flowCalls[k].frame >= 2
       /\ flowCalls[k].args.prev = Gray(flowCalls[k].frame - 1)
       /\ flowCalls[k].args.curr = Gray(flowCalls[k].frame)

\* the estimator ran for frame 3 although frame 2 scored 0.5 or less
C10_Witness ==
  /\ Len(flood_scores) = 3
  /\ flood_scores[2] <= 8
  /\ \E k \in 1..Len(flowCalls) :
       flowCalls[k].frame = 3 /\ flowCalls[k].args.prev = Gray(2)

====
